---------------------------- MODULE Spec2Model ----------------------------
(***************************************************************************)
(* A model of neural_clbf's Crazyflie system (systems/crazyflie.py) and of *)
(* the zero-order-hold rollout set up by the data-generation script        *)
(* (experiments/data_generation/stcar_s_curve_save_clbf_qp_data.py).       *)
(*                                                                         *)
(* Units.  Lengths, velocities and accelerations are integers counting     *)
(* hundredths (0.3 m is 30, 9.81 m/s^2 is 981).  A norm is compared        *)
(* through its square.  Masses are integers in an arbitrary mass unit.     *)
(* Times of the rollout are integers counting milliseconds.                *)
(*                                                                         *)
(* A state batch x of shape (B, 6) is a sequence of B rows, each a         *)
(* sequence of 6 integers.  Source indices are 0-based; Col adds one.      *)
(*                                                                         *)
(* The outcome of a call is a record: Ok(kind, val) for a returned value,  *)
(* Raise(exc) for a raised exception.                                      *)
(***************************************************************************)
EXTENDS Integers, Sequences, FiniteSets, TLC

VARIABLES
    phase,           \* "new" | "built" | "rejected": life of the Crazyflie object
    nominal_params,  \* the scenario handed to __init__ (self.nominal_params)
    x,               \* the caller's state tensor
    params,          \* the caller's scenario mapping
    call,            \* the name of the last call made on the object
    ret,             \* the outcome of that call
    rpc,             \* rollout: "start" | "invoke" | "integrate" | "done"
    built_by,        \* rollout: who built the system, "script" | "example"
    dt,              \* rollout: the system's integration step
    controller_dt,   \* rollout: the system's control period
    tstep,           \* rollout: integration sub-steps done
    ncalls,          \* rollout: controller invocations so far
    u_ret,           \* rollout: value returned by the latest invocation
    u_applied        \* rollout: control applied at the latest sub-step

cf_vars == <<phase, nominal_params, x, params, call, ret>>
ro_vars == <<rpc, built_by, dt, controller_dt, tstep, ncalls, u_ret, u_applied>>
vars == <<phase, nominal_params, x, params, call, ret,
          rpc, built_by, dt, controller_dt, tstep, ncalls, u_ret, u_applied>>

---------------------------------------------------------------------------
(* Bounds of the model *)

MaxBatch == 2
MaxSteps == 50

---------------------------------------------------------------------------
(* Outcomes of a Python call *)

Ok(kind, val) == [tag |-> "ok", kind |-> kind, val |-> val]
Raise(exc) == [tag |-> "raise", kind |-> exc, val |-> <<>>]
NoCall == [tag |-> "none", kind |-> "none", val |-> <<>>]

---------------------------------------------------------------------------
(* Class constants of Crazyflie *)

N_DIMS == 6
N_CONTROLS == 4

X == 0
Y == 1
Z == 2
VX == 3
VY == 4
VZ == 5

F == 0
PHI == 1
THETA == 2
PSI == 3

\* The properties n_dims and n_controls
n_dims == N_DIMS
n_controls == N_CONTROLS

Col(row, idx) == row[idx + 1]

RECURSIVE SumSq(_, _)
SumSq(row, n) ==
    IF n = 0 THEN 0 ELSE row[n] * row[n] + SumSq(row, n - 1)

\* x.norm(dim=-1), squared, of one row
NormSq(row) == SumSq(row, Len(row))

---------------------------------------------------------------------------
(* Inputs: scenarios and state batches *)

Masses == {-1, 0, 1, 2}

\* A scenario maps parameter names to scalars; the key "m" may be missing.
Scenarios == UNION {[D -> Masses] : D \in SUBSET {"m"}}

\* Representative states inside state_limits (hundredths).
Rows ==
    { <<0, 0, 0, 0, 0, 0>>,
      <<0, 0, 20, 0, 0, 0>>,
      <<0, 0, 30, 0, 0, 0>>,
      <<0, 0, 200, 0, 0, 0>>,
      <<300, -100, 200, 0, 0, 0>>,
      <<0, 100, 200, 100, 0, -200>>,
      <<0, 0, 400, 0, 0, 200>>,
      <<400, 400, 400, 800, 800, 800>> }

Batches == UNION {[1..b -> Rows] : b \in 1..MaxBatch}

---------------------------------------------------------------------------
(* torch primitives used by the masks *)

\* torch.logical_and(input, other, *, out=None): out is keyword-only, so a
\* call with any other number of positional arguments raises TypeError.
torch_logical_and(args) ==
    IF Len(args) # 2 THEN Raise("TypeError")
    ELSE Ok("bool_vec", [i \in 1..Len(args[1]) |-> args[1][i] /\ args[2][i]])

\* torch.logical_or(input, other, *, out=None)
torch_logical_or(args) ==
    IF Len(args) # 2 THEN Raise("TypeError")
    ELSE Ok("bool_vec", [i \in 1..Len(args[1]) |-> args[1][i] \/ args[2][i]])

\* Tensor broadcasting: src expands to dst iff, aligned at the right, each
\* size of src is 1 or the size of dst.
Broadcastable(src, dst) ==
    /\ Len(src) <= Len(dst)
    /\ \A k \in 1..Len(src) :
          src[Len(src) - k + 1] \in {1, dst[Len(dst) - k + 1]}

---------------------------------------------------------------------------
(* Crazyflie.validate_params *)

\* A variant that reads params["m"] whether or not the key is present.
validate_params_eager(p) ==
    IF "m" \notin DOMAIN p THEN Raise("KeyError") ELSE Ok("bool", p["m"] > 0)

\* Python's `and` short-circuits: params["m"] is read only when the key is
\* present.
validate_params(p) ==
    LET valid0 == TRUE
        valid1 == valid0 /\ ("m" \in DOMAIN p)
    IN  IF ~valid1
        THEN Ok("bool", FALSE)
        ELSE Ok("bool", p["m"] > 0)

---------------------------------------------------------------------------
(* Crazyflie.state_limits, control_limits *)

state_limits ==
    LET ones == [i \in 1..n_dims |-> 100]
        upper_limit ==
            [ones EXCEPT ![X + 1] = 400, ![Y + 1] = 400, ![Z + 1] = 400,
                         ![VX + 1] = 800, ![VY + 1] = 800, ![VZ + 1] = 800]
        neg == [i \in 1..n_dims |-> (0 - 1) * upper_limit[i]]
        lower_limit == [neg EXCEPT ![Z + 1] = 0]
    IN  Ok("tuple", <<upper_limit, lower_limit>>)

\* An entry <<a, b>> stands for a/100 + b * pi/2.
control_limits ==
    LET upper_limit == << <<10000, 0>>, <<0, 1>>, <<0, 1>>, <<0, 4>> >>
        lower_limit ==
            [i \in 1..n_controls |->
                <<(0 - 1) * upper_limit[i][1], (0 - 1) * upper_limit[i][2]>>]
    IN  Ok("tuple", <<upper_limit, lower_limit>>)

---------------------------------------------------------------------------
(* Crazyflie.safe_mask, unsafe_mask, distance_to_goal, goal_mask *)

safe_z_floor == 30
safe_z_ceiling == 400
safe_radius == 400

safe_mask(xs) ==
    torch_logical_and(
        << [i \in 1..Len(xs) |-> Col(xs[i], Z) <= safe_z_ceiling],
           [i \in 1..Len(xs) |-> Col(xs[i], Z) >= safe_z_floor],
           [i \in 1..Len(xs) |-> NormSq(xs[i]) <= safe_radius * safe_radius] >>)

unsafe_z_floor == 30
unsafe_z_ceiling == 400
unsafe_radius == 350

\* The function body ends after the assignment: there is no return statement.
unsafe_mask(xs) ==
    LET unsafe ==
            torch_logical_or(
                << [i \in 1..Len(xs) |-> Col(xs[i], Z) < unsafe_z_floor],
                   [i \in 1..Len(xs) |-> Col(xs[i], Z) > unsafe_z_ceiling],
                   [i \in 1..Len(xs) |->
                       NormSq(xs[i]) > unsafe_radius * unsafe_radius] >>)
    IN  IF unsafe.tag = "raise" THEN unsafe ELSE Ok("none", <<>>)

\* The quotient of two norms, kept as the pair of their squares.
distance_to_goal(xs) ==
    LET upper_limit == state_limits.val[1]
    IN  Ok("float_vec",
           [i \in 1..Len(xs) |-> <<NormSq(xs[i]), NormSq(upper_limit)>>])

goal_mask(xs) ==
    LET ones == [i \in 1..Len(xs) |-> TRUE]
        near_goal == [i \in 1..Len(xs) |-> NormSq(xs[i]) <= 30 * 30]
        goal1 == [i \in 1..Len(xs) |-> ones[i] /\ near_goal[i]]
        safe == safe_mask(xs)
    IN  IF safe.tag = "raise" THEN safe
        ELSE Ok("bool_vec", [i \in 1..Len(xs) |-> goal1[i] /\ safe.val[i]])

---------------------------------------------------------------------------
(* Crazyflie._f *)

\* f[:, idx] = vec, for f of shape (B, 6, 1) and vec of shape (B,): the
\* target f[:, idx] has shape (B, 1), and vec must broadcast to it.
SetCol(f, idx, vec) ==
    IF Broadcastable(<<Len(vec)>>, <<Len(f), 1>>)
    THEN Ok("tensor", [i \in 1..Len(f) |-> [f[i] EXCEPT ![idx + 1] = <<vec[1]>>]])
    ELSE Raise("RuntimeError")

\* f[:, idx] = c, for a Python scalar c
FillCol(f, idx, c) ==
    [i \in 1..Len(f) |-> [f[i] EXCEPT ![idx + 1] = <<c>>]]

_f(xs, p) ==
    LET batch_size == Len(xs)
        f0 == [i \in 1..batch_size |-> [j \in 1..n_dims |-> <<0>>]]
        f1 == SetCol(f0, X, [i \in 1..batch_size |-> Col(xs[i], VX)])
    IN  IF f1.tag = "raise" THEN f1
        ELSE LET f2 == SetCol(f1.val, Y, [i \in 1..batch_size |-> Col(xs[i], VY)])
             IN  IF f2.tag = "raise" THEN f2
                 ELSE LET f3 == SetCol(f2.val, Z,
                                       [i \in 1..batch_size |-> Col(xs[i], VZ)])
                      IN  IF f3.tag = "raise" THEN f3
                          ELSE Ok("tensor", FillCol(f3.val, VZ, 0 - 981))

---------------------------------------------------------------------------
(* Crazyflie._g *)

\* Real-valued entries of g are kept as terms.
Const(c) == <<"const", c>>
Sin(a) == <<"sin", a>>
Cos(a) == <<"cos", a>>
Neg(a) == <<"neg", a>>
Mul(a, b) == <<"mul", a, b>>
Div(a, m) == <<"div", a, m>>

\* The local tensor g after the assignments of lines 253 and 254.
g_local(xs, m) ==
    LET batch_size == Len(xs)
        g0 == [i \in 1..batch_size |->
                 [j \in 1..n_dims |-> [k \in 1..n_controls |-> Const(0)]]]
        s_theta == [i \in 1..batch_size |-> Sin(Col(xs[i], THETA))]
        c_theta == [i \in 1..batch_size |-> Cos(Col(xs[i], THETA))]
        s_phi == [i \in 1..batch_size |-> Sin(Col(xs[i], PHI))]
        c_phi == [i \in 1..batch_size |-> Cos(Col(xs[i], PHI))]
        g1 == [i \in 1..batch_size |->
                 [g0[i] EXCEPT ![VX + 1][F + 1] = Div(s_theta[i], m)]]
        g2 == [i \in 1..batch_size |->
                 [g1[i] EXCEPT ![VY + 1][F + 1] =
                     Div(Mul(Neg(s_phi[i]), c_theta[i]), m)]]
    IN  g2

\* Line 255 names Crazuflie, which is bound nowhere: evaluating the target
\* of the assignment raises NameError, and g is never returned.
_g(xs, p) ==
    IF "m" \notin DOMAIN p THEN Raise("KeyError")
    ELSE LET m == p["m"]
             g == g_local(xs, m)
         IN  Raise("NameError")

---------------------------------------------------------------------------
(* Crazyflie.u_eq *)

u_eq(self_nominal_params) ==
    LET zeros == [k \in 1..n_controls |-> 0]
    IN  Ok("tensor", << [zeros EXCEPT ![F + 1] = self_nominal_params["m"] * 981] >>)

---------------------------------------------------------------------------
(* The object and its caller *)

NoParams == [k \in {} |-> 0]

CfInit ==
    /\ phase = "new"
    /\ nominal_params = NoParams
    /\ x \in Batches
    /\ params \in Scenarios
    /\ call = "none"
    /\ ret = NoCall

\* Crazyflie.__init__ hands the scenario to ControlAffineSystem.__init__,
\* which raises ValueError when validate_params(nominal_params) is false.
Construct ==
    /\ phase = "new"
    /\ \E s \in Scenarios :
          LET v == validate_params(s)
          IN  /\ nominal_params' = s
              /\ call' = "__init__"
              /\ IF v.tag = "raise"
                 THEN phase' = "rejected" /\ ret' = v
                 ELSE IF v.val
                      THEN phase' = "built" /\ ret' = Ok("none", <<>>)
                      ELSE phase' = "rejected" /\ ret' = Raise("ValueError")
    /\ UNCHANGED <<x, params>>
    /\ UNCHANGED ro_vars

\* The caller binds x to another state batch: one row replaced, one row
\* appended, or the last row dropped.
NewState ==
    /\ phase = "built"
    /\ \/ \E i \in 1..Len(x), r \in Rows : x' = [x EXCEPT ![i] = r] /\ x' # x
       \/ \E r \in Rows : Len(x) < MaxBatch /\ x' = Append(x, r)
       \/ Len(x) > 1 /\ x' = SubSeq(x, 1, Len(x) - 1)
    /\ call' = "none"
    /\ ret' = NoCall
    /\ UNCHANGED <<phase, nominal_params, params>>
    /\ UNCHANGED ro_vars

\* The caller binds params to another scenario.
NewScenario ==
    /\ phase = "built"
    /\ \E s \in Scenarios : params' = s /\ s # params
    /\ call' = "none"
    /\ ret' = NoCall
    /\ UNCHANGED <<phase, nominal_params, x>>
    /\ UNCHANGED ro_vars

\* A method call on the built object: no method assigns to self, x or params.
Invoke(name, outcome) ==
    /\ phase = "built"
    /\ call' = name
    /\ ret' = outcome
    /\ UNCHANGED <<phase, nominal_params, x, params>>
    /\ UNCHANGED ro_vars

Call_validate_params == Invoke("validate_params", validate_params(params))
Call_state_limits == Invoke("state_limits", state_limits)
Call_control_limits == Invoke("control_limits", control_limits)
Call_safe_mask == Invoke("safe_mask", safe_mask(x))
Call_unsafe_mask == Invoke("unsafe_mask", unsafe_mask(x))
Call_distance_to_goal == Invoke("distance_to_goal", distance_to_goal(x))
Call_goal_mask == Invoke("goal_mask", goal_mask(x))
Call_f == Invoke("_f", _f(x, params))
Call_g == Invoke("_g", _g(x, params))
Call_u_eq == Invoke("u_eq", u_eq(nominal_params))

Next ==
    \/ Construct
    \/ NewState
    \/ NewScenario
    \/ Call_validate_params
    \/ Call_state_limits
    \/ Call_control_limits
    \/ Call_safe_mask
    \/ Call_unsafe_mask
    \/ Call_distance_to_goal
    \/ Call_goal_mask
    \/ Call_f
    \/ Call_g
    \/ Call_u_eq

RoInit ==
    /\ rpc = "start"
    /\ dt = 0
    /\ controller_dt = 0
    /\ built_by = "nobody"
    /\ tstep = 0
    /\ ncalls = 0
    /\ u_ret = 0
    /\ u_applied = 0

Init == CfInit /\ RoInit

Spec == Init /\ [][Next]_vars

---------------------------------------------------------------------------
(* The rollout: doMain builds the system, the driver steps it *)

simulation_dt == 1
controller_period == 10

Controls == {1, 2, 3}

\* A variant that builds the system without controller_dt, which then
\* defaults to dt.
doMain_default_controller_dt ==
    /\ rpc = "start"
    /\ dt' = simulation_dt
    /\ controller_dt' = simulation_dt
    /\ built_by' = "script"
    /\ rpc' = "invoke"
    /\ UNCHANGED <<tstep, ncalls, u_ret, u_applied>>
    /\ UNCHANGED cf_vars

\* doMain: STCar(nominal_params, dt=simulation_dt, controller_dt=controller_period)
doMain ==
    /\ rpc = "start"
    /\ dt' = simulation_dt
    /\ controller_dt' = controller_period
    /\ built_by' = "script"
    /\ rpc' = "invoke"
    /\ UNCHANGED <<tstep, ncalls, u_ret, u_applied>>
    /\ UNCHANGED cf_vars

\* A system built with controller_dt = 5 * dt.
BuildExample ==
    /\ rpc = "start"
    /\ \E d \in {1, 2} : dt' = d /\ controller_dt' = 5 * d
    /\ built_by' = "example"
    /\ rpc' = "invoke"
    /\ UNCHANGED <<tstep, ncalls, u_ret, u_applied>>
    /\ UNCHANGED cf_vars

\* Integration sub-steps per controller invocation
controller_update_freq == controller_dt \div dt

\* The driver asks the controller for a control.
InvokeController ==
    /\ rpc = "invoke"
    /\ \E u \in Controls : u_ret' = u
    /\ ncalls' = ncalls + 1
    /\ rpc' = "integrate"
    /\ UNCHANGED <<dt, controller_dt, built_by, tstep, u_applied>>
    /\ UNCHANGED cf_vars

\* One integration sub-step at dt under the held control.
IntegrateStep ==
    /\ rpc = "integrate"
    /\ tstep < MaxSteps
    /\ u_applied' = u_ret
    /\ tstep' = tstep + 1
    /\ rpc' = IF tstep' = MaxSteps THEN "done"
              ELSE IF tstep' % controller_update_freq = 0 THEN "invoke"
              ELSE "integrate"
    /\ UNCHANGED <<dt, controller_dt, built_by, ncalls, u_ret>>
    /\ UNCHANGED cf_vars

RoNext ==
    \/ doMain
    \/ BuildExample
    \/ InvokeController
    \/ IntegrateStep

CfIdle ==
    /\ phase = "new"
    /\ nominal_params = NoParams
    /\ x = << <<0, 0, 0, 0, 0, 0>> >>
    /\ params = NoParams
    /\ call = "none"
    /\ ret = NoCall

RoStart == CfIdle /\ RoInit

RolloutSpec == RoStart /\ [][RoNext]_vars

---------------------------------------------------------------------------
(* Helpers of the properties *)

ValidScenario(p) == "m" \in DOMAIN p /\ p["m"] > 0

IsBoolVec(r, n) == r.tag = "ok" /\ r.kind = "bool_vec" /\ Len(r.val) = n

InStateLimits(row) ==
    LET upper == state_limits.val[1]
        lower == state_limits.val[2]
    IN  \A j \in 1..N_DIMS : lower[j] <= row[j] /\ row[j] <= upper[j]

Shape3(t) == <<Len(t), Len(t[1]), Len(t[1][1])>>

Origin == [j \in 1..N_DIMS |-> 0]

\* The value of a term of g whose angles are all 0 (sin 0 = 0, cos 0 = 1),
\* times its mass: the numerator of Div(a, m).
RECURSIVE AtZero(_)
AtZero(t) ==
    CASE t[1] = "const" -> t[2]
      [] t[1] = "sin" -> 0
      [] t[1] = "cos" -> 1
      [] t[1] = "neg" -> 0 - AtZero(t[2])
      [] t[1] = "mul" -> AtZero(t[2]) * AtZero(t[3])
      [] t[1] = "div" -> AtZero(t[2])

RECURSIVE SumTo(_, _)
SumTo(fn, n) == IF n = 0 THEN 0 ELSE fn[n] + SumTo(fn, n - 1)

---------------------------------------------------------------------------
(* C4 *)

\* C4: validate_params is a total predicate: it returns true iff params has
\* the key "m" and params["m"] > 0, and returns false, raising nothing, when
\* the key is missing or m <= 0; construction with such a scenario is
\* rejected with a validation error, and succeeds otherwise.
C4_ValidateParamsTotal ==
    /\ call = "validate_params" =>
          ret = Ok("bool", "m" \in DOMAIN params /\ params["m"] > 0)
    /\ call = "__init__" =>
          IF "m" \in DOMAIN nominal_params /\ nominal_params["m"] > 0
          THEN phase = "built" /\ ret.tag = "ok"
          ELSE phase = "rejected" /\ ret = Raise("ValueError")
    /\ phase = "built" => ValidScenario(nominal_params)

C4_Witness ==
    /\ call = "validate_params"
    /\ "m" \notin DOMAIN params
    /\ ret = Ok("bool", FALSE)

---------------------------------------------------------------------------
(* Claims the code does not meet, each stated as the claim reads *)

\* C1: for every state inside state_limits, safe_mask and unsafe_mask are
\* boolean vectors that are never both true at a row.
C1_MaskDisjoint ==
    (call \in {"safe_mask", "unsafe_mask"} /\ \A i \in 1..Len(x) : InStateLimits(x[i]))
    => LET s == safe_mask(x)
           u == unsafe_mask(x)
       IN  /\ IsBoolVec(s, Len(x))
           /\ IsBoolVec(u, Len(x))
           /\ \A i \in 1..Len(x) : ~(s.val[i] /\ u.val[i])

\* C2: goal_mask is the conjunction of norm(x) <= 0.3 with safe_mask(x), so
\* wherever goal_mask is true safe_mask is true.
C2_GoalSubsetSafe ==
    call = "goal_mask"
    => LET s == safe_mask(x)
       IN  /\ IsBoolVec(ret, Len(x))
           /\ IsBoolVec(s, Len(x))
           /\ \A i \in 1..Len(x) :
                 /\ ret.val[i] = (NormSq(x[i]) <= 30 * 30 /\ s.val[i])
                 /\ ret.val[i] => s.val[i]

\* C3: unsafe_mask returns a boolean vector, one entry per row, true iff
\* z < 0.3 or z > 4.0 or norm(x) > 3.5.
C3_UnsafeMaskValue ==
    call = "unsafe_mask"
    => ret = Ok("bool_vec",
                [i \in 1..Len(x) |->
                    \/ Col(x[i], Z) < 30
                    \/ Col(x[i], Z) > 400
                    \/ NormSq(x[i]) > 350 * 350])

\* C5: at the origin, _f + _g @ u_eq is the zero vector for every valid
\* scenario, whatever its mass.  Each row is taken times the mass m.
C5_EquilibriumConsistency ==
    (call \in {"_f", "_g", "u_eq"} /\ x = <<Origin>> /\ ValidScenario(params))
    => LET f == _f(x, params)
           g == _g(x, params)
           u == u_eq(nominal_params)
       IN  /\ f.tag = "ok"
           /\ g.tag = "ok"
           /\ u.tag = "ok"
           /\ \A j \in 1..N_DIMS :
                 f.val[1][j][1] * params["m"]
                 + SumTo([k \in 1..N_CONTROLS |->
                            AtZero(g.val[1][j][k]) * u.val[1][k]], N_CONTROLS)
                 = 0

\* C7: for every batch size B >= 1 and valid scenario, _f returns a tensor
\* of shape (B, 6, 1) and _g returns a tensor of shape (B, 6, 4).
C7_ShapeContract ==
    /\ (call = "_f" /\ ValidScenario(params))
       => ret.tag = "ok" /\ Shape3(ret.val) = <<Len(x), N_DIMS, 1>>
    /\ (call = "_g" /\ ValidScenario(params))
       => ret.tag = "ok" /\ Shape3(ret.val) = <<Len(x), N_DIMS, N_CONTROLS>>

\* C8: safe_mask is true at a row iff z >= 0.3, z <= 4.0 and norm(x) <= 4.
C8_SafeMaskValue ==
    call = "safe_mask"
    => ret = Ok("bool_vec",
                [i \in 1..Len(x) |->
                    /\ Col(x[i], Z) >= 30
                    /\ Col(x[i], Z) <= 400
                    /\ NormSq(x[i]) <= 400 * 400])

\* C9: _g returns a tensor whose only non-zero entries are in column F at
\* rows VX, VY, VZ, and whose entries do not depend on any position or
\* velocity component of the state: the state has no other component, so g
\* is the same for every state batch of the same size.
C9_GStructure ==
    (call = "_g" /\ ValidScenario(params))
    => /\ ret.tag = "ok"
       /\ \A i \in 1..Len(x), j \in 1..N_DIMS, k \in 1..N_CONTROLS :
             (k # F + 1 \/ j \notin {VX + 1, VY + 1, VZ + 1})
             => ret.val[i][j][k] = Const(0)
       /\ \A x2 \in Batches : Len(x2) = Len(x) => _g(x2, params) = ret

Methods ==
    {"state_limits", "control_limits", "safe_mask", "goal_mask",
     "distance_to_goal", "_f", "_g", "u_eq"}

\* C10: a call to one of the listed methods, under a valid scenario, leaves
\* x, params and nominal_params unchanged and returns a result, and two
\* calls of the same method with equal arguments return equal results.
C10_ReferentialTransparency ==
    [][(/\ phase = "built"
        /\ ValidScenario(params)
        /\ call' \in Methods
        /\ <<call, ret>> # <<call', ret'>>)
       => /\ x' = x
          /\ params' = params
          /\ nominal_params' = nominal_params
          /\ ret'.tag = "ok"
          /\ (call = call' => ret' = ret)]_vars

---------------------------------------------------------------------------
(* C6 *)

\* C6: with controller_dt = k * dt (k = 10 for the script, k = 5 for the
\* example), the controller is invoked exactly once per k integration
\* sub-steps, so N sub-steps see ceil(N / k) invocations (50 sub-steps at
\* k = 5 see exactly 10), and the control applied at every sub-step is the
\* value returned by the most recent invocation.
C6_ZeroOrderHold ==
    rpc # "start"
    => LET k == controller_update_freq
       IN  /\ controller_dt >= dt
           /\ controller_dt = k * dt
           /\ built_by = "script" => k = 10
           /\ built_by = "example" => k = 5
           /\ rpc = "invoke" => ncalls * k = tstep
           /\ rpc = "integrate" => (ncalls - 1) * k <= tstep /\ tstep < ncalls * k
           /\ rpc = "done" => (ncalls - 1) * k < tstep /\ tstep <= ncalls * k
           /\ (tstep = 50 /\ rpc # "integrate" /\ k = 5) => ncalls = 10
           /\ (tstep > 0 /\ (rpc # "integrate" \/ tstep % k # 0))
              => u_applied = u_ret

C6_Witness ==
    /\ built_by = "script"
    /\ tstep = 50
    /\ rpc \in {"invoke", "done"}
    /\ ncalls = 5
    /\ u_applied = u_ret

===========================================================================
